---- MODULE Spec2Model ----
(***************************************************************************)
(* Model of spatial-controls 4.2.2: the translation manager, the movement  *)
(* state and the parts of the controller (SpatialControls) that drive them.*)
(*                                                                         *)
(* Numbers.  Timestamps are integers in milliseconds.  Lengths are         *)
(* integers in thousandths of a world unit, so that                        *)
(*   step = (timestamp - this.timestamp) * MILLISECONDS_TO_SECONDS         *)
(*          * sensitivity * boost                                          *)
(* is the integer (timestamp - this.timestamp) * sensitivity * boost and   *)
(* the arithmetic is exact (no floating-point rounding is modelled).       *)
(* A quaternion is an integer 4-tuple <<x, y, z, w>> standing for the unit *)
(* quaternion <<x, y, z, w>> / sqrt(x*x + y*y + z*z + w*w); the chosen     *)
(* ones rotate the coordinate axes onto coordinate axes.                   *)
(* The zoom distances of ZoomSettings and the spherical radius are         *)
(* integers in millionths of a world unit, so that the 1e-6 of             *)
(* ZoomSettings is the integer 1; Number.POSITIVE_INFINITY is an integer   *)
(* above every distance that occurs.                                       *)
(***************************************************************************)
EXTENDS Integers, Sequences, FiniteSets, TLC

\* ------------------------------------------------------------------ bounds
\* update() is called with timestamps 0, 250, ..., 250 * MaxTick.
MaxTick == 2

\* moveTo() is not called when a coordinate would leave [-MaxCoord, MaxCoord].
MaxCoord == 2000

\* ------------------------------------------------------------- vector math
VAdd(a, b) == <<a[1] + b[1], a[2] + b[2], a[3] + b[3]>>

VSub(a, b) == <<a[1] - b[1], a[2] - b[2], a[3] - b[3]>>

VScale(a, s) == <<a[1] * s, a[2] * s, a[3] * s>>

\* Vector3.applyQuaternion: q * v * q^-1, divided by |q|^2 because the
\* 4-tuple is not normalised.
ApplyQuaternion(a, q) ==
    LET x == a[1]
        y == a[2]
        z == a[3]
        qx == q[1]
        qy == q[2]
        qz == q[3]
        qw == q[4]
        n == qx * qx + qy * qy + qz * qz + qw * qw
        ix == qw * x + qy * z - qz * y
        iy == qw * y + qz * x - qx * z
        iz == qw * z + qx * y - qy * x
        iw == (0 - qx) * x - qy * y - qz * z
    IN  << (ix * qw + iw * (0 - qx) + iy * (0 - qz) - iz * (0 - qy)) \div n,
           (iy * qw + iw * (0 - qy) + iz * (0 - qx) - ix * (0 - qz)) \div n,
           (iz * qw + iw * (0 - qz) + ix * (0 - qy) - iy * (0 - qx)) \div n >>

\* core/axes: the local coordinate axes.
AxisX == <<1, 0, 0>>

AxisY == <<0, 1, 0>>

AxisZ == <<0, 0, 1>>

\* Orientations the object is constructed with: identity, a quarter turn and a
\* half turn about Y (lookAt keeps the orientation free of roll).
Quaternions == {<<0, 0, 0, 1>>, <<0, 1, 0, 1>>, <<0, 1, 0, 0>>}

\* v.copy(axis).applyQuaternion(this.quaternion) for the local axes, tabulated.
WorldAxis ==
    [q \in Quaternions |-> [a \in {AxisX, AxisY, AxisZ} |-> ApplyQuaternion(a, q)]]

\* ControlMode
FIRST_PERSON == "first-person"

THIRD_PERSON == "third-person"

\* Action: the actions that have a MovementStrategy, and BOOST.
Directions == {"forward", "backward", "left", "right", "up", "down"}

\* The direction keys pressed in Spec (SpecAxes presses all of Directions).
Pressed == {"forward", "backward"}

\* Timestamps passed to update().
Times == {250 * k : k \in 0..MaxTick}

\* Points passed to moveTo() as a vector of the caller.
Points == {<<1000, 2000, 0 - 1000>>}

\* Positions the controller is constructed with.
InitPositions == {<<0, 0, 0>>}

\* Values of TranslationSettings.sensitivity and .boostMultiplier.
Sensitivities == {2}

BoostMultipliers == {3}

\* Millionths of a world unit in a world unit, and in a thousandth of one.
Unit == 1000000

Micro == 1000

\* Number.POSITIVE_INFINITY
POSITIVE_INFINITY == 1000000000

\* Distances passed to the setters of ZoomSettings, in world units: zero, and the
\* bounds 1 and 10.
Distances == {0, 1 * Unit, 10 * Unit}

\* Values passed to ZoomSettings.setSensitivity.
ZoomSensitivities == {1, 3}

\* Zooming is not followed beyond a radius of MaxRadius world units.
MaxRadius == 12

\* Zoom-out calls in a row are counted up to MaxRun.
MaxRun == 8

\* Where every key is pressed, zooming is not followed beyond a radius of
\* MaxKeyRadius world units, and at most MaxHeld keys are held at once.
MaxKeyRadius == 2
MaxHeld == 2

\* Vectors an application passes to setPosition() and setTarget(), as an object
\* of its own or as coordinates.
Vectors == {<<0, 0, 0>>, <<0, 0, 2000>>, <<2000, 0, 0>>, <<0, 0, 0 - 1000>>}

\* The DOM elements controls are attached to.
Elements == {"canvas", "overlay"}

\* The objects an application passes as position, quaternion or target: the one
\* given to the constructor (for the target, the constructor's new Vector3()),
\* another one of its own, and the one of other controls.
ObjectIds == {"constructed", "given", "theirs"}

\* event.keyCode of the default key bindings, and of a key that is not bound.
KeyCodes == {87, 65, 83, 68, 32, 88, 33, 34, 16, 81}

\* Math.sign(event.deltaY) is taken of these wheel deltas.
WheelDeltas == {0 - 120, 0, 120}

\* ------------------------------------------------------------------- state
VARIABLES
    position,        \* SpatialControls.position (shared with both managers)
    quaternion,      \* SpatialControls.quaternion
    target,          \* SpatialControls.target
    mode,            \* settings.general.getMode()
    translation,     \* settings.translation: enabled, sensitivity, boostMultiplier
    movementState,   \* TranslationManager.movementState
    timestamp,       \* TranslationManager.timestamp
    enabled,         \* SpatialControls.enabled
    updateEvents,    \* "update" events the translation manager dispatched in the last call
    forwarded,       \* of these, the events the controller passed on to its own listeners
    zoom,            \* settings.zoom: enabled, inverted, minDistance, maxDistance, sensitivity
    spherical,       \* RotationManager.spherical: radius, and direction, the unit
                     \* vector (in thousandths) of its two angles
    updated,         \* history: update() has been called since construction
    recent,          \* history: per pair, the direction activated last while both are held
    cancelled,       \* history: "held" / "idle" after an explicit disable or a loss of
                     \* visibility with / without a flag set, "no" after a key-down
    seg,             \* history: position and timestamp at the update that began the
                     \* current run of updates with nothing else in between, and
                     \* the number of updates that followed it (2: two or more)
    released,        \* history: the direction still held when the last key event
                     \* released the other one of its pair while both were held
    stage,           \* history: "key" after a direction key-down that followed an
                     \* update, "applied" after the update that followed that key-down
    run,             \* history: the radius before the current run of zoom-out calls
                     \* with nothing else in between, and the number of calls
    pivot,           \* history: position and quaternion before a switch from first-
                     \* to third-person mode that nothing has followed yet
                     \* ("switched"), or only the switch back ("returned") or one
                     \* change of the zoom settings ("changed") has
    previousMode,    \* settings.general.getPreviousMode()
    objects,         \* the position, quaternion and target object each of the
                     \* controller, the rotation manager and the translation manager
                     \* refers to
    domElement,      \* SpatialControls.domElement
    listeners,       \* the event listeners of the controller in the DOM: pairs of
                     \* event target and event type
    clone,           \* the instance ZoomSettings.clone() returned last, if any
    changeEvents,    \* "change" events settings.zoom dispatched in the last call
    calls            \* history: the update calls the controller made to its managers
                     \* in the last step, in their order

vars == <<position, quaternion, target, mode, translation, movementState, timestamp,
          enabled, updateEvents, forwarded, zoom, spherical, updated, recent, cancelled,
          seg, released, stage, run, pivot, previousMode, objects, domElement,
          listeners, clone, changeEvents, calls>>

\* ----------------------------------------------------------- MovementState
\* MovementState.reset(): clears every flag.
ResetState ==
    [forward |-> FALSE, backward |-> FALSE, left |-> FALSE, right |-> FALSE,
     up |-> FALSE, down |-> FALSE, boost |-> FALSE,
     backwardBeforeForward |-> FALSE, rightBeforeLeft |-> FALSE, upBeforeDown |-> FALSE]

\* The opposing direction of a pair.
Opposite(d) ==
    CASE d = "forward" -> "backward"
      [] d = "backward" -> "forward"
      [] d = "left" -> "right"
      [] d = "right" -> "left"
      [] d = "up" -> "down"
      [] d = "down" -> "up"

\* The tie-break flag of the pair a direction belongs to.
TieBreak(d) ==
    CASE d \in {"forward", "backward"} -> "backwardBeforeForward"
      [] d \in {"left", "right"} -> "rightBeforeLeft"
      [] d \in {"up", "down"} -> "upBeforeDown"

\* The direction a tie-break flag names first (the one it gives priority to).
Named(d) == d \in {"backward", "right", "up"}

\* MovementStrategy.execute(flag) for Direction d.
MovementExecute(state, d, flag) ==
    IF flag
    THEN IF state[Opposite(d)]
         THEN [state EXCEPT ![d] = TRUE]
         ELSE [state EXCEPT ![d] = TRUE, ![TieBreak(d)] = Named(d)]
    ELSE [state EXCEPT ![d] = FALSE]

\* BoostStrategy.execute(flag)
BoostExecute(state, flag) == [state EXCEPT !.boost = flag]

\* ------------------------------------------------------ TranslationManager
\* The objects a call works on: s.position, s.target, and s.events, the number
\* of "update" events dispatched so far in the call.

\* As TranslateOnAxis, with the target left alone in every mode.
TranslateOnAxisPositionOnly(s, axis, distance) ==
    LET v == VScale(WorldAxis[quaternion][axis], distance)
    IN  [position |-> VAdd(s.position, v), target |-> s.target, events |-> s.events + 1]

\* As TranslateOnAxis, without the "update" event.
TranslateOnAxisSilent(s, axis, distance) ==
    LET v == VScale(WorldAxis[quaternion][axis], distance)
    IN  [position |-> VAdd(s.position, v),
         target |-> IF mode = THIRD_PERSON THEN VAdd(s.target, v) ELSE s.target,
         events |-> s.events]

\* TranslationManager.translateOnAxis(axis, distance)
TranslateOnAxis(s, axis, distance) ==
    LET v == VScale(WorldAxis[quaternion][axis], distance)
    IN  [position |-> VAdd(s.position, v),
         target |-> IF mode = THIRD_PERSON THEN VAdd(s.target, v) ELSE s.target,
         events |-> s.events + 1]

\* As Step, with the boost multiplier applied whether or not boost is set.
StepAlwaysBoosted(state, deltaTime) ==
    deltaTime * translation.sensitivity * translation.boostMultiplier

\* const step = deltaTime * sensitivity * boost (deltaTime in ms, step in 1/1000)
Step(state, deltaTime) ==
    deltaTime * translation.sensitivity
        * (IF state.boost THEN translation.boostMultiplier ELSE 1)

\* As TranslatePair, with the branches of the tie-break flag swapped.
TranslatePairSwapped(s, state, axis, plus, minus, flag, step) ==
    IF state[plus] /\ state[minus]
    THEN IF state[flag]
         THEN TranslateOnAxis(s, axis, 0 - step)
         ELSE TranslateOnAxis(s, axis, step)
    ELSE IF state[plus]
         THEN TranslateOnAxis(s, axis, step)
         ELSE IF state[minus]
              THEN TranslateOnAxis(s, axis, 0 - step)
              ELSE s

\* As TranslatePair, with the tie-break flag consulted whenever a direction of the
\* pair is held.
TranslatePairByFlag(s, state, axis, plus, minus, flag, step) ==
    IF state[plus] \/ state[minus]
    THEN IF state[flag]
         THEN TranslateOnAxis(s, axis, step)
         ELSE TranslateOnAxis(s, axis, 0 - step)
    ELSE s

\* The if / else-if chain of translate() for one pair: plus is the direction of
\* the positive axis, minus the opposing one, flag the pair's tie-break flag.
TranslatePair(s, state, axis, plus, minus, flag, step) ==
    IF state[plus] /\ state[minus]
    THEN IF state[flag]
         THEN TranslateOnAxis(s, axis, step)
         ELSE TranslateOnAxis(s, axis, 0 - step)
    ELSE IF state[plus]
         THEN TranslateOnAxis(s, axis, step)
         ELSE IF state[minus]
              THEN TranslateOnAxis(s, axis, 0 - step)
              ELSE s

\* TranslationManager.translate(deltaTime)
Translate(s, state, deltaTime) ==
    LET step == Step(state, deltaTime)
        s1 == TranslatePair(s, state, AxisZ, "backward", "forward",
                            "backwardBeforeForward", step)
        s2 == TranslatePair(s1, state, AxisX, "right", "left", "rightBeforeLeft", step)
    IN  TranslatePair(s2, state, AxisY, "up", "down", "upBeforeDown", step)

\* As ManagerUpdate, with the timestamp itself taken as the elapsed time.
ManagerUpdateAbsolute(s, t) ==
    IF translation.enabled THEN Translate(s, movementState, t) ELSE s

\* TranslationManager.update(timestamp): the objects after the call.
ManagerUpdate(s, t) ==
    IF translation.enabled THEN Translate(s, movementState, t - timestamp) ELSE s

\* As NextTimestamp, with the assignment inside the if (translation enabled).
NextTimestampIfEnabled(t) == IF translation.enabled THEN t ELSE timestamp

\* TranslationManager.update(timestamp): this.timestamp = timestamp, whether or
\* not translation is enabled.
NextTimestamp(t) == t

\* As ManagerMoveTo, with the target copied before the delta is computed.
ManagerMoveToCopyFirst(ref, p) ==
    LET h0 == [position |-> position, target |-> target, point |-> p]
    IN  IF mode = THIRD_PERSON
        THEN LET h1 == [h0 EXCEPT !.target = h0[ref]]
                 v == VSub(h1[ref], h1.target)
                 h2 == [h1 EXCEPT !.position = VAdd(h1.position, v)]
             IN  h2
        ELSE [h0 EXCEPT !.position = h0[ref]]

\* TranslationManager.moveTo(position).  ref names the object passed in:
\* "position" or "target" (the controller's own vectors) or "point" (a vector of
\* the caller with value p).
ManagerMoveTo(ref, p) ==
    LET h0 == [position |-> position, target |-> target, point |-> p]
    IN  IF mode = THIRD_PERSON
        THEN LET v == VSub(h0[ref], h0.target)
                 h1 == [h0 EXCEPT !.target = h0[ref]]
                 h2 == [h1 EXCEPT !.position = VAdd(h1.position, v)]
             IN  h2
        ELSE [h0 EXCEPT !.position = h0[ref]]

\* ------------------------------------------------------------ ZoomSettings
Max(a, b) == IF a >= b THEN a ELSE b

Min(a, b) == IF a <= b THEN a ELSE b

\* new ZoomSettings()
ZoomDefault ==
    [enabled |-> TRUE, inverted |-> FALSE, minDistance |-> 1,
     maxDistance |-> POSITIVE_INFINITY, sensitivity |-> 1]

\* ZoomSettings.setEnabled(value)
ZoomSetEnabled(z, value) == [z EXCEPT !.enabled = value]

\* ZoomSettings.setInverted(value)
ZoomSetInverted(z, value) == [z EXCEPT !.inverted = value]

\* ZoomSettings.setMinDistance(value)
ZoomSetMinDistance(z, value) ==
    [z EXCEPT !.minDistance = Min(Max(value, 1), POSITIVE_INFINITY)]

\* ZoomSettings.setMaxDistance(value)
ZoomSetMaxDistance(z, value) ==
    [z EXCEPT !.maxDistance = Min(Max(value, z.minDistance), POSITIVE_INFINITY)]

\* ZoomSettings.setRange(min, max)
ZoomSetRange(z, min, max) == [z EXCEPT !.minDistance = min, !.maxDistance = max]

\* ZoomSettings.setSensitivity(value)
ZoomSetSensitivity(z, value) == [z EXCEPT !.sensitivity = value]

\* ZoomSettings.copy(settings)
\* As ZoomCopy, with the sensitivity not copied.
ZoomCopyKeepSensitivity(z, settings) ==
    [enabled |-> settings.enabled, inverted |-> settings.inverted,
     minDistance |-> settings.minDistance, maxDistance |-> settings.maxDistance,
     sensitivity |-> z.sensitivity]

\* ZoomSettings.copy(settings)
ZoomCopy(z, settings) ==
    [enabled |-> settings.enabled, inverted |-> settings.inverted,
     minDistance |-> settings.minDistance, maxDistance |-> settings.maxDistance,
     sensitivity |-> settings.sensitivity]

\* ZoomSettings.fromJSON(json): json.maxDistance || Number.POSITIVE_INFINITY
ZoomFromJSON(z, json) ==
    [enabled |-> json.enabled, inverted |-> json.inverted,
     minDistance |-> json.minDistance,
     maxDistance |-> IF json.maxDistance = 0 THEN POSITIVE_INFINITY
                     ELSE json.maxDistance,
     sensitivity |-> json.sensitivity]

\* The JSON data passed to fromJSON, and the settings passed to copy: settings
\* another application wrote with toJSON, or built with the setters.
ZoomJSON ==
    [enabled : {TRUE}, inverted : {FALSE}, minDistance : Distances,
     maxDistance : Distances, sensitivity : {1}]

ZoomOthers ==
    {ZoomSetMaxDistance(ZoomSetMinDistance(ZoomDefault, a), b) : a, b \in Distances}
      \cup {ZoomSetRange(ZoomDefault, a, b) : a, b \in Distances}

\* --------------------------------------------------------- RotationManager
\* The length of an integer vector, rounded down: the root lies in lo..hi.
RECURSIVE Root(_, _, _)
Root(n, lo, hi) ==
    IF lo >= hi
    THEN lo
    ELSE LET mid == (lo + hi + 1) \div 2
         IN  IF mid * mid <= n THEN Root(n, mid, hi) ELSE Root(n, lo, mid - 1)

Length(a) == Root(a[1] * a[1] + a[2] * a[2] + a[3] * a[3], 0, 65535)

\* The view direction of an orientation: the local -Z axis in world space.
ViewDirection(q) == ApplyQuaternion(<<0, 0, 0 - 1000>>, q)

\* The view directions of the orientations of the model, tabulated.
ViewDirections == [q \in Quaternions |-> ViewDirection(q)]

\* The objects a call of the rotation manager works on: s.position, s.target,
\* s.quaternion, s.spherical.

\* RotationManager.updateSpherical(): the spherical state is taken from the offset
\* of the position from the target in third-person mode, and from the target, a
\* direction, in first-person mode.
SphericalFrom(p, t, m) ==
    LET v == IF m = THIRD_PERSON THEN VSub(p, t) ELSE t
        n == Length(v)
    IN  [radius |-> n * Micro,
         direction |-> <<(v[1] * 1000) \div n, (v[2] * 1000) \div n,
                         (v[3] * 1000) \div n>>]

UpdateSpherical(s, m) == [s EXCEPT !.spherical = SphericalFrom(s.position, s.target, m)]

\* RotationManager.updatePosition(): position = target + radius * direction in
\* third-person mode.
UpdatePosition(s, m) ==
    IF m = THIRD_PERSON
    THEN LET r == s.spherical.radius \div Micro
             d == s.spherical.direction
         IN  [s EXCEPT !.position =
                  VAdd(s.target, <<(d[1] * r) \div 1000, (d[2] * r) \div 1000,
                                   (d[3] * r) \div 1000>>)]
    ELSE s

\* RotationManager.updateQuaternion(): the orientation that looks from the
\* position towards the target.  In first-person mode the target is the point of
\* the spherical state, radius * direction, ahead of the position; in third-person
\* mode the direction of the spherical state leads from the target to the position.
UpdateQuaternion(s, m) ==
    LET d == s.spherical.direction
        r == s.spherical.radius \div Micro
    IN  IF m = THIRD_PERSON
        THEN [s EXCEPT !.quaternion =
                  CHOOSE q \in Quaternions : ViewDirections[q] = VScale(d, 0 - 1)]
        ELSE [s EXCEPT !.target = <<(d[1] * r) \div 1000, (d[2] * r) \div 1000,
                                    (d[3] * r) \div 1000>>,
                       !.quaternion = CHOOSE q \in Quaternions : ViewDirections[q] = d]

\* RotationManager.lookAt(point): the target is set to the point, the spherical
\* state and the quaternion are recomputed from it.
LookAt(s, m, point) ==
    UpdateQuaternion(UpdateSpherical([s EXCEPT !.target = point], m), m)

\* The orientation lookAt(point) leads to is one of Quaternions.
CanLookAt(s, m, point) ==
    LET v == IF m = THIRD_PERSON THEN VSub(point, s.position) ELSE point
    IN  \E q \in Quaternions : \E r \in {1000, 2000, 3000} :
            VScale(ViewDirections[q], r) = VScale(v, 1000)

\* Math.min(Math.max(value, min), max)
Clamp(value, min, max) == Min(Max(value, min), max)

\* As ZoomRadius, without the clamp.
ZoomRadiusUnclamped(r, z, direction) ==
    LET sign == IF z.inverted THEN 0 - direction ELSE direction
    IN  r - sign * z.sensitivity * Unit

\* RotationManager.zoom(direction): the new radius.  The step is the sensitivity
\* times a world unit; -1 zooms out.
ZoomRadius(r, z, direction) ==
    LET sign == IF z.inverted THEN 0 - direction ELSE direction
    IN  Clamp(r - sign * z.sensitivity * Unit, z.minDistance, z.maxDistance)

\* RotationManager.zoom(direction)
ManagerZoom(s, m, z, direction) ==
    IF z.enabled
    THEN LET s1 == [s EXCEPT !.spherical.radius = ZoomRadius(@, z, direction)]
         IN  IF m = THIRD_PERSON THEN UpdatePosition(s1, m) ELSE UpdateQuaternion(s1, m)
    ELSE s

\* ---------------------------------------------------------- SpatialControls
\* As OnSettingsChanged, with the position left where it is on a switch to
\* first-person mode.
OnSettingsChangedKeepPosition(s, previous, m) ==
    LET s1 == IF m # previous
              THEN IF m = THIRD_PERSON
                   THEN [s EXCEPT !.target = s.position,
                                  !.position = VSub(s.position, s.target)]
                   ELSE [s EXCEPT !.target = ViewDirection(s.quaternion)]
              ELSE s
    IN  UpdateQuaternion(UpdatePosition(UpdateSpherical(s1, m), m), m)

\* As OnSettingsChanged, with position and target reinterpreted for the mode
\* whether or not the mode has changed (in third-person mode unless the target is
\* the origin, where the offset would vanish).
OnSettingsChangedAlways(s, previous, m) ==
    LET s1 == IF m = THIRD_PERSON
              THEN IF s.target = <<0, 0, 0>> THEN s
                   ELSE [s EXCEPT !.target = s.position,
                                  !.position = VSub(s.position, s.target)]
              ELSE [s EXCEPT !.position = s.target,
                             !.target = ViewDirection(s.quaternion)]
    IN  UpdateQuaternion(UpdatePosition(UpdateSpherical(s1, m), m), m)

\* As OnSettingsChanged, with the target left where it is on a switch to
\* third-person mode.
OnSettingsChangedKeepTarget(s, previous, m) ==
    LET s1 == IF m # previous
              THEN IF m = THIRD_PERSON
                   THEN [s EXCEPT !.position = VSub(s.position, s.target)]
                   ELSE [s EXCEPT !.position = s.target,
                                  !.target = ViewDirection(s.quaternion)]
              ELSE s
    IN  UpdateQuaternion(UpdatePosition(UpdateSpherical(s1, m), m), m)

\* SpatialControls.onSettingsChanged(event), with general.getPreviousMode() =
\* previous and general.getMode() = m.
OnSettingsChanged(s, previous, m) ==
    LET s1 == IF m # previous
              THEN IF m = THIRD_PERSON
                   THEN [s EXCEPT !.target = s.position,
                                  !.position = VSub(s.position, s.target)]
                   ELSE [s EXCEPT !.position = s.target,
                                  !.target = ViewDirection(s.quaternion)]
              ELSE s
    IN  UpdateQuaternion(UpdatePosition(UpdateSpherical(s1, m), m), m)

\* As Strategies, with the strategies of MOVE_LEFT and MOVE_RIGHT exchanged.
StrategiesLeftRight ==
    [a \in {"MOVE_FORWARD", "MOVE_LEFT", "MOVE_BACKWARD", "MOVE_RIGHT", "MOVE_DOWN",
            "MOVE_UP", "ZOOM_OUT", "ZOOM_IN", "BOOST"} |->
        CASE a = "MOVE_FORWARD" -> [kind |-> "movement", direction |-> "forward"]
          [] a = "MOVE_LEFT" -> [kind |-> "movement", direction |-> "right"]
          [] a = "MOVE_BACKWARD" -> [kind |-> "movement", direction |-> "backward"]
          [] a = "MOVE_RIGHT" -> [kind |-> "movement", direction |-> "left"]
          [] a = "MOVE_DOWN" -> [kind |-> "movement", direction |-> "down"]
          [] a = "MOVE_UP" -> [kind |-> "movement", direction |-> "up"]
          [] a = "ZOOM_OUT" -> [kind |-> "zoom", zoomIn |-> FALSE]
          [] a = "ZOOM_IN" -> [kind |-> "zoom", zoomIn |-> TRUE]
          [] a = "BOOST" -> [kind |-> "boost"]]

\* As Strategies, with the strategy of ZOOM_OUT zooming in as well.
StrategiesBothZoomIn ==
    [a \in {"MOVE_FORWARD", "MOVE_LEFT", "MOVE_BACKWARD", "MOVE_RIGHT", "MOVE_DOWN",
            "MOVE_UP", "ZOOM_OUT", "ZOOM_IN", "BOOST"} |->
        CASE a = "MOVE_FORWARD" -> [kind |-> "movement", direction |-> "forward"]
          [] a = "MOVE_LEFT" -> [kind |-> "movement", direction |-> "left"]
          [] a = "MOVE_BACKWARD" -> [kind |-> "movement", direction |-> "backward"]
          [] a = "MOVE_RIGHT" -> [kind |-> "movement", direction |-> "right"]
          [] a = "MOVE_DOWN" -> [kind |-> "movement", direction |-> "down"]
          [] a = "MOVE_UP" -> [kind |-> "movement", direction |-> "up"]
          [] a = "ZOOM_OUT" -> [kind |-> "zoom", zoomIn |-> TRUE]
          [] a = "ZOOM_IN" -> [kind |-> "zoom", zoomIn |-> TRUE]
          [] a = "BOOST" -> [kind |-> "boost"]]

\* The actions and their strategies: new MovementStrategy(state, direction),
\* new ZoomStrategy(rotationManager, zoomIn), new BoostStrategy(state).
Actions ==
    {"MOVE_FORWARD", "MOVE_LEFT", "MOVE_BACKWARD", "MOVE_RIGHT", "MOVE_DOWN",
     "MOVE_UP", "ZOOM_OUT", "ZOOM_IN", "BOOST"}

Strategies ==
    [a \in Actions |->
        CASE a = "MOVE_FORWARD" -> [kind |-> "movement", direction |-> "forward"]
          [] a = "MOVE_LEFT" -> [kind |-> "movement", direction |-> "left"]
          [] a = "MOVE_BACKWARD" -> [kind |-> "movement", direction |-> "backward"]
          [] a = "MOVE_RIGHT" -> [kind |-> "movement", direction |-> "right"]
          [] a = "MOVE_DOWN" -> [kind |-> "movement", direction |-> "down"]
          [] a = "MOVE_UP" -> [kind |-> "movement", direction |-> "up"]
          [] a = "ZOOM_OUT" -> [kind |-> "zoom", zoomIn |-> FALSE]
          [] a = "ZOOM_IN" -> [kind |-> "zoom", zoomIn |-> TRUE]
          [] a = "BOOST" -> [kind |-> "boost"]]

\* settings.keyBindings: W, A, S, D, space, X, page up, page down, shift.
KeyBindings ==
    [k \in {87, 65, 83, 68, 32, 88, 33, 34, 16} |->
        CASE k = 87 -> "MOVE_FORWARD"
          [] k = 65 -> "MOVE_LEFT"
          [] k = 83 -> "MOVE_BACKWARD"
          [] k = 68 -> "MOVE_RIGHT"
          [] k = 32 -> "MOVE_UP"
          [] k = 88 -> "MOVE_DOWN"
          [] k = 33 -> "ZOOM_IN"
          [] k = 34 -> "ZOOM_OUT"
          [] k = 16 -> "BOOST"]

\* Math.sign(x)
Sign(x) == IF x > 0 THEN 1 ELSE IF x < 0 THEN 0 - 1 ELSE 0

\* ------------------------------------------------------------------ history
NoSeg == [valid |-> FALSE, position |-> <<0, 0, 0>>, timestamp |-> 0, calls |-> 0]

NoRecent == [backwardBeforeForward |-> "none", rightBeforeLeft |-> "none",
             upBeforeDown |-> "none"]

Cancel == IF cancelled = "held" \/ movementState # ResetState THEN "held" ELSE "idle"

InBox(a) == \A i \in 1..3 : a[i] >= 0 - MaxCoord /\ a[i] <= MaxCoord

NoReleased == "none"

NoStage == [phase |-> "none", direction |-> "none"]

NoRun == [from |-> 0, calls |-> 0]

NoPivot == [phase |-> "no", position |-> <<0, 0, 0>>, quaternion |-> <<0, 0, 0, 1>>]

\* No instance has been cloned: clone holds the instances clone() returned last.
NoClone == {}

\* The listeners setEnabled(true) adds, and the listeners setEnabled(false)
\* removes, with the DOM element el.
ListenersAdded(el) ==
    {<<"document", "pointerlockchange">>, <<"document", "visibilitychange">>,
     <<"body", "keyup">>, <<"body", "keydown">>}
      \cup {<<el, type>> : type \in {"mousedown", "mouseup", "mouseleave", "touchstart",
                                     "touchend", "wheel"}}

ListenersRemoved(el) ==
    ListenersAdded(el) \cup {<<el, "mousemove">>, <<el, "touchmove">>}

\* The three holders refer to the objects named by ids.
Shared(ids) ==
    [holder \in {"controls", "rotationManager", "translationManager"} |-> ids]

Fields == {"position", "quaternion", "target"}

\* As UpdateCalls, with the translation manager updated first.
UpdateCallsTranslationFirst(t) ==
    <<[manager |-> "translationManager", timestamp |-> t],
      [manager |-> "rotationManager", timestamp |-> t]>>

\* The update calls of one frame.
UpdateCalls(t) ==
    <<[manager |-> "rotationManager", timestamp |-> t],
      [manager |-> "translationManager", timestamp |-> t]>>

\* A step that is no frame, and that leaves the general settings, the objects
\* referred to, the DOM and the settings instances alone.
FrameIdle == calls' = <<>>

ObjectsIdle == UNCHANGED objects

DomIdle == UNCHANGED <<domElement, listeners>>

CloneIdle == clone' = clone /\ changeEvents' = 0

Apart ==
    /\ FrameIdle
    /\ ObjectsIdle
    /\ DomIdle
    /\ CloneIdle
    /\ previousMode' = previousMode

\* The rotation manager and the zoom settings are not involved in a step.
ZoomIdle ==
    /\ UNCHANGED <<zoom, spherical>>
    /\ run' = NoRun
    /\ pivot' = NoPivot

\* ---------------------------------------------------------------- actions
\* new SpatialControls(position, quaternion, domElement): first-person mode,
\* target.set(0, 0, -1).applyQuaternion(quaternion), enabled because a DOM element
\* is given.  The application then sets the translation settings and may switch
\* to third-person mode (onSettingsChanged: the target takes the position, the
\* position moves back by the old target) before the first frame.
Init ==
    /\ quaternion \in Quaternions
    /\ mode \in {FIRST_PERSON, THIRD_PERSON}
    /\ \E p \in InitPositions :
         LET t == ApplyQuaternion(<<0, 0, 0 - 1000>>, quaternion)
         IN  IF mode = FIRST_PERSON
             THEN position = p /\ target = t
             ELSE position = VSub(p, t) /\ target = p
    /\ translation \in [enabled : {TRUE}, sensitivity : Sensitivities,
                        boostMultiplier : BoostMultipliers]
    /\ movementState = ResetState
    /\ timestamp = 0
    /\ enabled = TRUE
    /\ updateEvents = 0
    /\ forwarded = 0
    /\ zoom = ZoomDefault
    /\ spherical = SphericalFrom(position, target, mode)
    /\ updated = FALSE
    /\ recent = NoRecent
    /\ cancelled = "no"
    /\ seg = NoSeg
    /\ released = NoReleased
    /\ stage = NoStage
    /\ run = NoRun
    /\ pivot = NoPivot
    /\ previousMode = mode
    /\ objects = Shared([position |-> "constructed", quaternion |-> "constructed",
                         target |-> "constructed"])
    /\ domElement = "canvas"
    /\ listeners = ListenersAdded(domElement)
    /\ clone = NoClone
    /\ changeEvents = 0
    /\ calls = <<>>

\* As HandleMovementKey, with the object moved by the key-down itself.
HandleMovementKeyMoves(d, pressed) ==
    /\ enabled
    /\ movementState' = MovementExecute(movementState, d, pressed)
    /\ recent' = [recent EXCEPT ![TieBreak(d)] =
                      IF pressed /\ movementState[Opposite(d)] THEN d ELSE "none"]
    /\ cancelled' = IF pressed THEN "no" ELSE cancelled
    /\ released' = IF ~pressed /\ movementState[d] /\ movementState[Opposite(d)]
                   THEN Opposite(d) ELSE NoReleased
    /\ stage' = IF pressed /\ seg.valid
                THEN [phase |-> "key", direction |-> d] ELSE NoStage
    /\ position' = IF pressed
                   THEN Translate([position |-> position, target |-> target,
                                   events |-> 0], movementState', 1).position
                   ELSE position
    /\ updateEvents' = 0
    /\ forwarded' = 0
    /\ seg' = NoSeg
    /\ ZoomIdle
    /\ Apart
    /\ UNCHANGED <<quaternion, target, mode, translation, timestamp, enabled, updated>>

\* SpatialControls.handleKeyboardEvent for a key bound to a movement action.
HandleMovementKey(d, pressed) ==
    /\ enabled
    /\ movementState' = MovementExecute(movementState, d, pressed)
    /\ recent' = [recent EXCEPT ![TieBreak(d)] =
                      IF pressed /\ movementState[Opposite(d)] THEN d ELSE "none"]
    /\ cancelled' = IF pressed THEN "no" ELSE cancelled
    /\ released' = IF ~pressed /\ movementState[d] /\ movementState[Opposite(d)]
                   THEN Opposite(d) ELSE NoReleased
    /\ stage' = IF pressed /\ seg.valid
                THEN [phase |-> "key", direction |-> d] ELSE NoStage
    /\ updateEvents' = 0
    /\ forwarded' = 0
    /\ seg' = NoSeg
    /\ ZoomIdle
    /\ Apart
    /\ UNCHANGED <<position, quaternion, target, mode, translation, timestamp,
                   enabled, updated>>

\* SpatialControls.handleKeyboardEvent for a key bound to BOOST.
HandleBoostKey(pressed) ==
    /\ enabled
    /\ movementState' = BoostExecute(movementState, pressed)
    /\ cancelled' = IF pressed THEN "no" ELSE cancelled
    /\ released' = NoReleased
    /\ stage' = NoStage
    /\ updateEvents' = 0
    /\ forwarded' = 0
    /\ seg' = NoSeg
    /\ ZoomIdle
    /\ Apart
    /\ UNCHANGED <<position, quaternion, target, mode, translation, timestamp,
                   enabled, updated, recent>>

\* SpatialControls.update(timestamp): rotationManager.update(timestamp), which
\* moves nothing, then translationManager.update(timestamp).
Update(t) ==
    /\ t >= timestamp
    /\ calls' = UpdateCalls(t)
    /\ ObjectsIdle
    /\ DomIdle
    /\ CloneIdle
    /\ previousMode' = previousMode
    /\ \E s \in {ManagerUpdate([position |-> position, target |-> target, events |-> 0], t)} :
           /\ position' = s.position
           /\ target' = s.target
           /\ updateEvents' = s.events
           /\ forwarded' = s.events
           /\ seg' = IF seg.valid
                     THEN [seg EXCEPT !.calls = IF seg.calls < 2 THEN seg.calls + 1 ELSE 2]
                     ELSE [valid |-> TRUE, position |-> s.position, timestamp |-> t,
                           calls |-> 0]
    /\ timestamp' = NextTimestamp(t)
    /\ updated' = TRUE
    /\ stage' = IF stage.phase = "key" THEN [stage EXCEPT !.phase = "applied"]
                ELSE NoStage
    /\ ZoomIdle
    /\ UNCHANGED <<quaternion, mode, translation, movementState, enabled, recent,
                   cancelled, released>>

\* SpatialControls.moveTo(x, y, z) / moveTo(vector)
MoveTo(ref, p) ==
    /\ LET h == ManagerMoveTo(ref, p)
       IN  /\ InBox(h.position)
           /\ InBox(h.target)
           /\ position' = h.position
           /\ target' = h.target
    /\ updateEvents' = 1
    /\ forwarded' = 1
    /\ seg' = NoSeg
    /\ stage' = NoStage
    /\ ZoomIdle
    /\ Apart
    /\ UNCHANGED <<quaternion, mode, translation, movementState, timestamp, enabled,
                   updated, recent, cancelled, released>>

\* As SetEnabled, with the movement state reset only when the controls are enabled.
SetEnabledResetOnEnable(e) ==
    /\ movementState' = IF e THEN ResetState ELSE movementState
    /\ enabled' = e
    /\ recent' = IF e THEN NoRecent ELSE recent
    /\ cancelled' = IF e THEN cancelled ELSE Cancel
    /\ released' = IF e THEN NoReleased ELSE released
    /\ stage' = NoStage
    /\ updateEvents' = 0
    /\ forwarded' = 0
    /\ seg' = NoSeg
    /\ listeners' = IF e /\ ~enabled
                    THEN listeners \cup ListenersAdded(domElement)
                    ELSE IF ~e /\ enabled
                         THEN listeners \ ListenersRemoved(domElement)
                         ELSE listeners
    /\ domElement' = domElement
    /\ FrameIdle
    /\ ObjectsIdle
    /\ CloneIdle
    /\ previousMode' = previousMode
    /\ ZoomIdle
    /\ UNCHANGED <<position, quaternion, target, mode, translation, timestamp, updated>>

\* SpatialControls.setEnabled(enabled)
SetEnabled(e) ==
    /\ movementState' = ResetState
    /\ enabled' = e
    /\ recent' = NoRecent
    /\ cancelled' = IF e THEN cancelled ELSE Cancel
    /\ released' = NoReleased
    /\ stage' = NoStage
    /\ updateEvents' = 0
    /\ forwarded' = 0
    /\ seg' = NoSeg
    /\ listeners' = IF e /\ ~enabled
                    THEN listeners \cup ListenersAdded(domElement)
                    ELSE IF ~e /\ enabled
                         THEN listeners \ ListenersRemoved(domElement)
                         ELSE listeners
    /\ domElement' = domElement
    /\ FrameIdle
    /\ ObjectsIdle
    /\ CloneIdle
    /\ previousMode' = previousMode
    /\ ZoomIdle
    /\ UNCHANGED <<position, quaternion, target, mode, translation, timestamp, updated>>

\* SpatialControls.dispose()
Dispose == SetEnabled(FALSE)

\* SpatialControls.handleVisibilityChangeEvent(), hidden = document.hidden
HandleVisibilityChangeEvent(hidden) ==
    /\ enabled
    /\ movementState' = IF hidden THEN ResetState ELSE movementState
    /\ recent' = IF hidden THEN NoRecent ELSE recent
    /\ cancelled' = IF hidden THEN Cancel ELSE cancelled
    /\ released' = IF hidden THEN NoReleased ELSE released
    /\ stage' = NoStage
    /\ updateEvents' = 0
    /\ forwarded' = 0
    /\ seg' = NoSeg
    /\ listeners' = IF hidden
                    THEN listeners \ {<<domElement, "mousemove">>,
                                      <<domElement, "touchmove">>}
                    ELSE listeners
    /\ domElement' = domElement
    /\ FrameIdle
    /\ ObjectsIdle
    /\ CloneIdle
    /\ previousMode' = previousMode
    /\ ZoomIdle
    /\ UNCHANGED <<position, quaternion, target, mode, translation, timestamp, enabled,
                   updated>>

\* SpatialControls.handlePointerLockEvent(), locked = (document.pointerLockElement
\* === this.domElement): only the mousemove listener is added or removed.
HandlePointerLockEvent(locked) ==
    /\ enabled
    /\ stage' = NoStage
    /\ updateEvents' = 0
    /\ forwarded' = 0
    /\ seg' = NoSeg
    /\ listeners' = IF locked
                    THEN listeners \cup {<<domElement, "mousemove">>}
                    ELSE listeners \ {<<domElement, "mousemove">>}
    /\ domElement' = domElement
    /\ FrameIdle
    /\ ObjectsIdle
    /\ CloneIdle
    /\ previousMode' = previousMode
    /\ ZoomIdle
    /\ UNCHANGED <<position, quaternion, target, mode, translation, movementState,
                   timestamp, enabled, updated, recent, cancelled, released>>

\* SpatialControls.setDomElement(domElement): enabled controls are disabled with
\* the old element and enabled with the new one, disabled controls stay disabled.
SetDomElement(el) ==
    /\ movementState' = ResetState
    /\ enabled' = enabled
    /\ recent' = NoRecent
    /\ cancelled' = Cancel
    /\ released' = NoReleased
    /\ stage' = NoStage
    /\ updateEvents' = 0
    /\ forwarded' = 0
    /\ seg' = NoSeg
    /\ domElement' = el
    /\ listeners' = IF enabled
                    THEN (listeners \ ListenersRemoved(domElement)) \cup ListenersAdded(el)
                    ELSE listeners
    /\ FrameIdle
    /\ ObjectsIdle
    /\ CloneIdle
    /\ previousMode' = previousMode
    /\ ZoomIdle
    /\ UNCHANGED <<position, quaternion, target, mode, translation, timestamp, updated>>

\* An event of the DOM that touches nothing but the listeners, which it leaves as
\* the set ls.
DomEvent(ls) ==
    /\ listeners' = ls
    /\ domElement' = domElement
    /\ stage' = NoStage
    /\ updateEvents' = 0
    /\ forwarded' = 0
    /\ seg' = NoSeg
    /\ FrameIdle
    /\ ObjectsIdle
    /\ CloneIdle
    /\ previousMode' = previousMode
    /\ ZoomIdle
    /\ UNCHANGED <<position, quaternion, target, mode, translation, movementState,
                   timestamp, enabled, updated, recent, cancelled, released>>

\* PointerBehaviour
PointerBehaviours == {"default", "lock"}

\* SpatialControls.handleMainPointerButton(event, pressed) for a mousedown or
\* mouseup event the listener on the element el receives, with
\* settings.pointer.getBehaviour() = behaviour: unless the pointer is to be
\* locked, the mousemove listener is added to or removed from this.domElement.
HandleMainPointerButton(el, pressed, behaviour) ==
    /\ <<el, IF pressed THEN "mousedown" ELSE "mouseup">> \in listeners
    /\ DomEvent(IF behaviour # "default" THEN listeners
                ELSE IF pressed THEN listeners \cup {<<domElement, "mousemove">>}
                ELSE listeners \ {<<domElement, "mousemove">>})

\* SpatialControls.handlePointerLeaveEvent(event)
HandlePointerLeaveEvent(el) ==
    /\ <<el, "mouseleave">> \in listeners
    /\ DomEvent(listeners \ {<<domElement, "mousemove">>})

\* SpatialControls.handleTouchEvent(event, start)
HandleTouchEvent(el, start) ==
    /\ <<el, IF start THEN "touchstart" ELSE "touchend">> \in listeners
    /\ DomEvent(IF start THEN listeners \cup {<<domElement, "touchmove">>}
                ELSE listeners \ {<<domElement, "touchmove">>})

\* A step in which the translation manager does nothing and no key is handled.
Still ==
    /\ UNCHANGED <<movementState, translation, timestamp, enabled, updated, recent,
                   cancelled, released>>
    /\ updateEvents' = 0
    /\ forwarded' = 0
    /\ seg' = NoSeg
    /\ stage' = NoStage

\* The "change" event of the settings, handled by onSettingsChanged.
Changed(previous, m) ==
    \E s \in {OnSettingsChanged([position |-> position, target |-> target,
                                 quaternion |-> quaternion, spherical |-> spherical],
                                previous, m)} :
        /\ position' = s.position
        /\ target' = s.target
        /\ quaternion' = s.quaternion
        /\ spherical' = s.spherical

\* settings.translation.setEnabled(value), and the "change" event it dispatches:
\* onSettingsChanged finds the mode unchanged.
SetTranslationEnabled(value) ==
    /\ translation' = [translation EXCEPT !.enabled = value]
    /\ Changed(previousMode, mode)
    /\ Apart
    /\ updateEvents' = 0
    /\ forwarded' = 0
    /\ seg' = NoSeg
    /\ stage' = NoStage
    /\ run' = NoRun
    /\ pivot' = NoPivot
    /\ UNCHANGED <<mode, zoom, movementState, timestamp, enabled, updated, recent,
                   cancelled, released>>

\* settings.general.setMode(m), and the "change" event it dispatches, during
\* which getPreviousMode() is the mode before the call.
SetMode(m) ==
    /\ mode' = m
    /\ Changed(previousMode, m)
    /\ previousMode' = m
    /\ FrameIdle
    /\ ObjectsIdle
    /\ DomIdle
    /\ CloneIdle
    /\ pivot' = IF mode = FIRST_PERSON /\ m = THIRD_PERSON
                THEN [phase |-> "switched", position |-> position,
                      quaternion |-> quaternion]
                ELSE IF pivot.phase = "switched" /\ m = FIRST_PERSON
                     THEN [pivot EXCEPT !.phase = "returned"]
                     ELSE NoPivot
    /\ run' = NoRun
    /\ zoom' = zoom
    /\ Still

\* this.lookAt(point), called by a method of the controller that handles no
\* input and changes no settings, with position and quaternion as the method
\* has left them.
Looked(p, q, point) ==
    /\ CanLookAt([position |-> p], mode, point)
    /\ \E s \in {LookAt([position |-> p, target |-> target, quaternion |-> q,
                          spherical |-> spherical], mode, point)} :
         /\ position' = s.position
         /\ target' = s.target
         /\ quaternion' = s.quaternion
         /\ spherical' = s.spherical
    /\ Still
    /\ FrameIdle
    /\ CloneIdle
    /\ run' = NoRun
    /\ pivot' = NoPivot
    /\ UNCHANGED <<mode, previousMode>>

\* The three holders after holder by holder has been given the object id as its
\* field.
Given(holders, field, id) ==
    [holder \in DOMAIN objects |->
        IF holder \in holders THEN [objects[holder] EXCEPT ![field] = id]
        ELSE objects[holder]]

Holders == {"controls", "rotationManager", "translationManager"}

\* The value of the object id passed as a field: the object the controller has
\* holds the value the controller sees, another one any value of the set.
ValueOf(field, id, value, current) ==
    IF objects["controls"][field] = id THEN value = current ELSE TRUE

\* As SetPosition, with the new object not passed on to the translation manager.
SetPositionNotPassedOn(id, x) ==
    /\ ValueOf("position", id, x, position)
    /\ objects' = Given({"controls", "rotationManager"}, "position", id)
    /\ Looked(x, quaternion, target)
    /\ DomIdle
    /\ zoom' = zoom

\* SpatialControls.setPosition(x), x a Vector3: the object id, holding x.
SetPosition(id, x) ==
    /\ ValueOf("position", id, x, position)
    /\ objects' = Given(Holders, "position", id)
    /\ Looked(x, quaternion, target)
    /\ DomIdle
    /\ zoom' = zoom

\* SpatialControls.setPosition(x, y, z): this.position.set(x, y, z)
SetPositionCoordinates(x) ==
    /\ ObjectsIdle
    /\ Looked(x, quaternion, target)
    /\ DomIdle
    /\ zoom' = zoom

\* SpatialControls.setQuaternion(quaternion): the object id, holding q.  In
\* first-person mode the target is set to the direction of q first.
SetQuaternion(id, q) ==
    /\ ValueOf("quaternion", id, q, quaternion)
    /\ objects' = Given(Holders, "quaternion", id)
    /\ Looked(position, q, IF mode = FIRST_PERSON THEN ViewDirections[q] ELSE target)
    /\ DomIdle
    /\ zoom' = zoom

\* SpatialControls.setTarget(x), x a Vector3: the object id, holding x.
SetTarget(id, x) ==
    /\ ValueOf("target", id, x, target)
    /\ objects' = Given(Holders, "target", id)
    /\ Looked(position, quaternion, x)
    /\ DomIdle
    /\ zoom' = zoom

\* SpatialControls.setTarget(x, y, z): this.target.set(x, y, z)
SetTargetCoordinates(x) ==
    /\ ObjectsIdle
    /\ Looked(position, quaternion, x)
    /\ DomIdle
    /\ zoom' = zoom

\* The controls passed to copy(): other controls in the same mode, with their own
\* position, quaternion and target objects, DOM element and zoom settings.
OtherControls ==
    {[position |-> IF mode = THIRD_PERSON THEN VSub(x, ViewDirections[q]) ELSE x,
      quaternion |-> q,
      target |-> IF mode = THIRD_PERSON THEN x ELSE ViewDirections[q],
      domElement |-> el,
      zoom |-> z] :
        x \in Vectors, q \in Quaternions, el \in Elements,
        z \in {ZoomDefault, ZoomSetSensitivity(ZoomDefault, 3)}}

\* SpatialControls.copy(controls): the controller and both managers take the
\* objects of the other controls, the settings are copied without an event, and
\* the DOM element is replaced where the listeners are.
Copy(controls) ==
    /\ objects' = Shared([position |-> "theirs", quaternion |-> "theirs",
                          target |-> "theirs"])
    /\ domElement' = controls.domElement
    /\ listeners' = listeners
    /\ zoom' = ZoomCopy(zoom, controls.zoom)
    /\ Looked(controls.position, controls.quaternion, controls.target)

\* A setter of settings.zoom that leaves the settings z, and its "change" event.
SetZoom(z) ==
    /\ zoom' = z
    /\ Changed(previousMode, mode)
    /\ changeEvents' = 1
    /\ clone' = clone
    /\ FrameIdle
    /\ ObjectsIdle
    /\ DomIdle
    /\ previousMode' = previousMode
    /\ run' = NoRun
    /\ pivot' = IF pivot.phase = "switched"
                THEN [pivot EXCEPT !.phase = "changed"] ELSE NoPivot
    /\ mode' = mode
    /\ Still

SetMinDistance(value) == SetZoom(ZoomSetMinDistance(zoom, value))

SetMaxDistance(value) == SetZoom(ZoomSetMaxDistance(zoom, value))

SetRange(min, max) == SetZoom(ZoomSetRange(zoom, min, max))

SetZoomSensitivity(value) == SetZoom(ZoomSetSensitivity(zoom, value))

SetZoomEnabled(value) == SetZoom(ZoomSetEnabled(zoom, value))

SetZoomInverted(value) == SetZoom(ZoomSetInverted(zoom, value))

\* settings.zoom.copy(settings) and settings.zoom.fromJSON(json): no event.
AssignZoom(z) ==
    /\ zoom' = z
    /\ Apart
    /\ run' = NoRun
    /\ pivot' = NoPivot
    /\ UNCHANGED <<position, quaternion, target, mode, spherical>>
    /\ Still

CopyZoom(settings) == AssignZoom(ZoomCopy(zoom, settings))

ZoomSettingsFromJSON(json) == AssignZoom(ZoomFromJSON(zoom, json))

\* A call that changes nothing but the instance clone() returned, which it leaves
\* as c: the controller does not listen to that instance.
OnClone(c) ==
    /\ clone' = {c}
    /\ changeEvents' = 0
    /\ FrameIdle
    /\ ObjectsIdle
    /\ DomIdle
    /\ run' = NoRun
    /\ pivot' = NoPivot
    /\ UNCHANGED <<position, quaternion, target, mode, previousMode, spherical, zoom>>
    /\ Still

\* settings.zoom.clone(): new ZoomSettings(), then clone.copy(this)
CloneZoom == OnClone(ZoomCopy(ZoomDefault, zoom))

\* Setters called on the instance clone() returned.
CloneSetSensitivity(value) ==
    \E c \in clone : OnClone(ZoomSetSensitivity(c, value))

CloneSetEnabled(value) ==
    \E c \in clone : OnClone(ZoomSetEnabled(c, value))

\* A zoom call that enlarges the radius unless it is clamped.
ZoomsOut(direction) ==
    zoom.enabled /\ (IF zoom.inverted THEN 0 - direction ELSE direction) = 0 - 1

\* rotationManager.zoom(direction).  A radius above MaxRadius, and a radius that is
\* zero or no whole number of thousandths, is not followed.
Zoom(direction) ==
    /\ Still
    /\ Apart
    /\ UNCHANGED <<mode, zoom>>
    /\ \E s \in {ManagerZoom([position |-> position, target |-> target,
                               quaternion |-> quaternion, spherical |-> spherical],
                              mode, zoom, direction)} :
           /\ s.spherical.radius <= MaxRadius * Unit
           /\ s.spherical.radius > 0
           /\ s.spherical.radius % Micro = 0
           /\ position' = s.position
           /\ target' = s.target
           /\ quaternion' = s.quaternion
           /\ spherical' = s.spherical
    /\ run' = IF ZoomsOut(direction)
              THEN IF run.calls = 0
                   THEN [from |-> spherical.radius, calls |-> 1]
                   ELSE [run EXCEPT !.calls = Min(run.calls + 1, MaxRun)]
              ELSE NoRun
    /\ pivot' = NoPivot

\* An event that no strategy acts on.
Ignored ==
    /\ Still
    /\ Apart
    /\ ZoomIdle
    /\ UNCHANGED <<position, quaternion, target, mode>>

\* SpatialControls.handleWheelEvent(event), deltaY = event.deltaY
HandleWheelEvent(deltaY) ==
    /\ enabled
    /\ Zoom(Sign(deltaY))

\* ZoomStrategy.execute(flag): one zoom call on activation, +1 to zoom in.
ZoomExecute(zoomIn, pressed) ==
    IF pressed THEN Zoom(IF zoomIn THEN 1 ELSE 0 - 1) ELSE Ignored

\* SpatialControls.handleKeyboardEvent(event, pressed), keyCode = event.keyCode
HandleKeyboardEvent(keyCode, pressed) ==
    /\ enabled
    /\ IF keyCode \in DOMAIN KeyBindings
       THEN LET strategy == Strategies[KeyBindings[keyCode]]
            IN  CASE strategy.kind = "movement" ->
                       HandleMovementKey(strategy.direction, pressed)
                  [] strategy.kind = "boost" -> HandleBoostKey(pressed)
                  [] strategy.kind = "zoom" -> ZoomExecute(strategy.zoomIn, pressed)
       ELSE Ignored

Next ==
    \/ \E d \in Pressed, pressed \in BOOLEAN : HandleMovementKey(d, pressed)
    \/ \E pressed \in BOOLEAN : HandleBoostKey(pressed)
    \/ \E t \in Times : Update(t)
    \/ \E p \in Points : MoveTo("point", p)
    \/ \E ref \in {"position", "target"} : MoveTo(ref, <<0, 0, 0>>)
    \/ \E e \in BOOLEAN : SetEnabled(e)
    \/ Dispose
    \/ \E hidden \in BOOLEAN : HandleVisibilityChangeEvent(hidden)
    \/ HandlePointerLockEvent(FALSE)
    \/ \E value \in BOOLEAN : SetTranslationEnabled(value)

Spec == Init /\ [][Next]_vars

\* Any keys are pressed and released in any order, then the frames run.
NextAxes ==
    \/ \E d \in Directions, pressed \in BOOLEAN :
            ~updated /\ HandleMovementKey(d, pressed)
    \/ \E pressed \in BOOLEAN : ~updated /\ HandleBoostKey(pressed)
    \/ \E t \in Times : Update(t)

SpecAxes == Init /\ [][NextAxes]_vars

\* Zooming by wheel and keys, changes of the zoom settings, and mode switches.
NextZoom ==
    \/ \E deltaY \in WheelDeltas : HandleWheelEvent(deltaY)
    \/ \E keyCode \in {33, 34}, pressed \in BOOLEAN : HandleKeyboardEvent(keyCode, pressed)
    \/ \E m \in {FIRST_PERSON, THIRD_PERSON} : SetMode(m)
    \/ \E value \in Distances : SetMinDistance(value)
    \/ \E value \in Distances : SetMaxDistance(value)
    \/ \E min \in Distances, max \in Distances : SetRange(min, max)
    \/ \E value \in ZoomSensitivities : SetZoomSensitivity(value)
    \/ \E value \in BOOLEAN : SetZoomEnabled(value)
    \/ \E value \in BOOLEAN : SetZoomInverted(value)

SpecZoom == Init /\ [][NextZoom]_vars

\* Key events of every key code, bound or not, with at most MaxHeld keys held at
\* once and the radius at most MaxKeyRadius.
NextKeys ==
    \E keyCode \in KeyCodes, pressed \in BOOLEAN :
        /\ HandleKeyboardEvent(keyCode, pressed)
        /\ spherical'.radius <= MaxKeyRadius * Unit
        /\ Cardinality({f \in Directions \cup {"boost"} : movementState'[f]}) <= MaxHeld

SpecKeys == Init /\ [][NextKeys]_vars

\* The application replaces and sets position, quaternion and target, and copies
\* other controls.
NextObjects ==
    \/ \E id \in ObjectIds : \E x \in Vectors : SetPosition(id, x)
    \/ \E x \in Vectors : SetPositionCoordinates(x)
    \/ \E id \in ObjectIds : \E q \in Quaternions : SetQuaternion(id, q)
    \/ \E id \in ObjectIds : \E x \in Vectors : SetTarget(id, x)
    \/ \E x \in Vectors : SetTargetCoordinates(x)
    \/ \E controls \in OtherControls : Copy(controls)

SpecObjects == Init /\ [][NextObjects]_vars

\* The application enables, disables, disposes, moves and copies the controls, and
\* the DOM delivers the events the controller listens to.
NextDom ==
    \/ \E e \in BOOLEAN : SetEnabled(e)
    \/ Dispose
    \/ \E el \in Elements : SetDomElement(el)
    \/ \E controls \in OtherControls : Copy(controls)
    \/ \E el \in Elements, pressed \in BOOLEAN, behaviour \in PointerBehaviours :
         HandleMainPointerButton(el, pressed, behaviour)
    \/ \E el \in Elements : HandlePointerLeaveEvent(el)
    \/ \E el \in Elements, start \in BOOLEAN : HandleTouchEvent(el, start)
    \/ \E locked \in BOOLEAN : HandlePointerLockEvent(locked)
    \/ \E hidden \in BOOLEAN : HandleVisibilityChangeEvent(hidden)

SpecDom == Init /\ [][NextDom]_vars

\* The zoom settings are set, copied, read from JSON data and cloned, and the
\* clone is set.
NextSettings ==
    \/ \E value \in ZoomSensitivities : SetZoomSensitivity(value)
    \/ \E settings \in ZoomOthers : CopyZoom(settings)
    \/ \E json \in ZoomJSON : ZoomSettingsFromJSON(json)
    \/ CloneZoom
    \/ \E value \in ZoomSensitivities : CloneSetSensitivity(value)
    \/ \E value \in BOOLEAN : CloneSetEnabled(value)

SpecSettings == Init /\ [][NextSettings]_vars

\* ------------------------------------------------------- claim vocabulary
Dot(a, b) == a[1] * b[1] + a[2] * b[2] + a[3] * b[3]

\* A step of SpatialControls.update (update(t) leaves timestamp = t, and only
\* update leaves seg.valid set).
UpdateStep == seg'.valid /\ \E t \in {timestamp'} : t \in Times /\ Update(t)

\* The displacement of position in a step, and its component along a local axis.
Displacement == VSub(position', position)

Along(axis) == Dot(Displacement, WorldAxis[quaternion][axis])

\* The three pairs: local axis, direction of +axis, direction of -axis, flag.
Pairs ==
    {[axis |-> AxisZ, plus |-> "backward", minus |-> "forward",
      flag |-> "backwardBeforeForward"],
     [axis |-> AxisX, plus |-> "right", minus |-> "left", flag |-> "rightBeforeLeft"],
     [axis |-> AxisY, plus |-> "up", minus |-> "down", flag |-> "upBeforeDown"]}

\* The sign of the step on a pair's axis, from the flags alone: +1 along the
\* axis, -1 against it, 0 for no step.
PairSign(state, pr) ==
    IF state[pr.plus] /\ state[pr.minus]
    THEN IF state[pr.flag] THEN 1 ELSE 0 - 1
    ELSE IF state[pr.plus] THEN 1 ELSE IF state[pr.minus] THEN 0 - 1 ELSE 0

\* Thousandths of a unit moved per millisecond: sensitivity, times the boost
\* multiplier while the boost flag is set.
Speed(state) ==
    translation.sensitivity * (IF state.boost THEN translation.boostMultiplier ELSE 1)

Abs(n) == IF n < 0 THEN 0 - n ELSE n

PairVelocity(state, pr) ==
    VScale(WorldAxis[quaternion][pr.axis], PairSign(state, pr) * Speed(state))

\* World-space displacement per millisecond for the held directions.
Velocity(state) ==
    VAdd(VAdd(PairVelocity(state, [axis |-> AxisZ, plus |-> "backward",
                                   minus |-> "forward",
                                   flag |-> "backwardBeforeForward"]),
              PairVelocity(state, [axis |-> AxisX, plus |-> "right", minus |-> "left",
                                   flag |-> "rightBeforeLeft"])),
         PairVelocity(state, [axis |-> AxisY, plus |-> "up", minus |-> "down",
                              flag |-> "upBeforeDown"]))

Held(state) == \E d \in Directions : state[d]

OnlyForward ==
    [ResetState EXCEPT !.forward = TRUE]

\* C1: whenever both directions of a pair are held at an update, the translation
\* on that axis goes along the direction of the pair that was activated most
\* recently.
C1_MostRecentWins ==
    [][UpdateStep /\ translation.enabled
         => \A pr \in Pairs :
              movementState[pr.plus] /\ movementState[pr.minus]
                => Along(pr.axis) =
                     (IF recent[pr.flag] = pr.plus THEN 1 ELSE 0 - 1)
                       * Step(movementState, timestamp' - timestamp)]_vars

\* C2: in every update with translation enabled each axis is resolved on its own:
\* one direction held, the step goes along it (backward +Z, forward -Z, right +X,
\* left -X, up +Y, down -Y in local axes); none held, no step on that axis; both
\* held, the step goes along the direction the pair's tie-break flag names first.
\* One "update" event is dispatched per axis that steps.
C2_AxesResolvedIndependently ==
    [][UpdateStep /\ translation.enabled
         => /\ \A pr \in Pairs :
                 Along(pr.axis) = PairSign(movementState, pr)
                                    * Step(movementState, timestamp' - timestamp)
            /\ updateEvents' = Cardinality({pr \in Pairs : PairSign(movementState, pr) # 0})]_vars

\* Both directions held on two axes, one on the third, after a quarter second
\* in first-person mode under a quarter turn about Y.
C2_Witness ==
    /\ movementState.forward /\ movementState.backward
    /\ movementState.left /\ movementState.right
    /\ movementState.up /\ ~movementState.down
    /\ movementState.backwardBeforeForward /\ ~movementState.rightBeforeLeft
    /\ ~movementState.boost
    /\ quaternion = <<0, 1, 0, 1>>
    /\ mode = FIRST_PERSON
    /\ timestamp = 250
    /\ updateEvents = 3
    /\ position = <<500, 500, 500>>

\* C3: each axis step of update(timestamp) has magnitude (timestamp - previous
\* timestamp) / 1000 * sensitivity * (boost multiplier if boost is set, else 1),
\* and its direction does not depend on boost; with identity orientation,
\* position (0,0,0), first-person mode, sensitivity 2 and forward held, update(0)
\* then update(500) leaves the position at (0,0,-1).
C3_StepMagnitude ==
    [][UpdateStep /\ translation.enabled
         => /\ \A pr \in Pairs :
                 /\ Abs(Along(pr.axis)) =
                      (IF movementState[pr.plus] \/ movementState[pr.minus] THEN 1 ELSE 0)
                        * (timestamp' - timestamp) * translation.sensitivity
                        * (IF movementState.boost THEN translation.boostMultiplier ELSE 1)
                 /\ Along(pr.axis)
                      * PairSign([movementState EXCEPT !.boost = FALSE], pr) >= 0
            /\ ( /\ updated /\ timestamp = 0 /\ timestamp' = 500
                 /\ quaternion = <<0, 0, 0, 1>> /\ position = <<0, 0, 0>>
                 /\ mode = FIRST_PERSON /\ translation.sensitivity = 2
                 /\ movementState = OnlyForward
                 => position' = <<0, 0, 0 - 1000>> )]_vars

\* The end of the scenario: update(0), then update(500) with forward held.
C3_Witness ==
    /\ seg.valid /\ seg.timestamp = 0 /\ seg.position = <<0, 0, 0>> /\ seg.calls = 1
    /\ timestamp = 500
    /\ quaternion = <<0, 0, 0, 1>>
    /\ mode = FIRST_PERSON
    /\ translation.sensitivity = 2
    /\ movementState = OnlyForward
    /\ position = <<0, 0, 0 - 1000>>

\* C4: with translation enabled and the held directions, orientation, sensitivity
\* and boost fixed, the displacement produced by the update calls that follow the
\* call at t0 depends only on tn - t0, however many calls divide the interval.
C4_FrameRateIndependent ==
    seg.valid /\ translation.enabled
      => position = VAdd(seg.position,
                         VScale(Velocity(movementState), timestamp - seg.timestamp))

\* Half a second covered by two or more update calls after the one at t0 = 0.
C4_Witness ==
    /\ seg.valid /\ seg.timestamp = 0 /\ timestamp = 500 /\ seg.calls = 2
    /\ translation.enabled
    /\ movementState.forward /\ movementState.right /\ movementState.boost
    /\ position # seg.position

\* C5: the first update(t) after construction, with a direction held and t > 0,
\* does not move the object by the whole interval from the baseline 0 to t.
C5_FirstUpdateNotAnomalous ==
    [][UpdateStep /\ ~updated /\ translation.enabled /\ Held(movementState)
         /\ timestamp' > 0
         => Displacement # VScale(Velocity(movementState), timestamp' - 0)]_vars

\* C6: in third-person mode every update adds the same delta to position and
\* target, so position - target is unchanged; in first-person mode update leaves
\* the target unchanged.
C6_TargetFollowsInThirdPerson ==
    [][UpdateStep
         => /\ mode = THIRD_PERSON
                 => /\ VSub(target', target) = Displacement
                    /\ VSub(position', target') = VSub(position, target)
            /\ mode = FIRST_PERSON => target' = target]_vars

\* Third-person mode: the camera has moved and the target with it.
C6_Witness ==
    /\ mode = THIRD_PERSON
    /\ seg.valid /\ updateEvents = 3
    /\ timestamp = 500
    /\ quaternion = <<0, 1, 0, 1>>
    /\ target # <<0, 0, 0>>
    /\ VSub(position, target) = <<1000, 0, 0>>

\* The value of the vector passed to moveTo at the time of the call.
PointValue(ref, p) ==
    IF ref = "position" THEN position ELSE IF ref = "target" THEN target ELSE p

MoveToArguments ==
    {<<"position", <<0, 0, 0>> >>, <<"target", <<0, 0, 0>> >>}
      \cup {<<"point", p>> : p \in Points}

\* C7: moveTo(point) in first-person mode sets position to point and leaves the
\* target; in third-person mode it sets target to point and moves position by
\* point - old target, so position - target is preserved, also when point is the
\* controller's own position or target vector (point: its value at the call).
C7_MoveTo ==
    [][\A a \in MoveToArguments :
         updateEvents' = 1 /\ ~seg'.valid /\ MoveTo(a[1], a[2])
           => /\ mode = FIRST_PERSON
                   => position' = PointValue(a[1], a[2]) /\ target' = target
              /\ mode = THIRD_PERSON
                   => /\ target' = PointValue(a[1], a[2])
                      /\ position' = VAdd(position, VSub(PointValue(a[1], a[2]), target))
                      /\ VSub(position', target') = VSub(position, target)]_vars

\* Third-person mode after moveTo(1, 2, -1) from position (0,0,1), target (0,0,0).
C7_Witness ==
    /\ mode = THIRD_PERSON
    /\ updateEvents = 1 /\ ~seg.valid
    /\ quaternion = <<0, 0, 0, 1>>
    /\ target = <<1000, 2000, 0 - 1000>>
    /\ position = <<1000, 2000, 0>>

\* C8: with translation disabled, update(t) leaves position and target unchanged
\* and emits no update event whatever is held, but sets the timestamp baseline to
\* t; so an update with translation enabled integrates only the time since the
\* update call before it, enabled or not.
C8_DisabledTranslation ==
    [][\A t \in Times :
         seg'.valid /\ Update(t)
           => /\ timestamp' = t
              /\ ~translation.enabled
                   => position' = position /\ target' = target /\ updateEvents' = 0
              /\ translation.enabled
                   => Displacement = VScale(Velocity(movementState), t - timestamp)]_vars

\* Time has passed in update calls with forward held and translation disabled.
C8_Witness ==
    /\ ~translation.enabled
    /\ seg.valid /\ seg.timestamp < timestamp
    /\ movementState.forward /\ ~movementState.backward
    /\ position = seg.position
    /\ updateEvents = 0

\* C9: setEnabled(false), dispose() and a visibilitychange with the document
\* hidden each clear every MovementState flag at once, and no update moves the
\* object until a key-down arrives.
C9_CancelClearsMovement ==
    [][/\ cancelled' # "no" => movementState' = ResetState
       /\ cancelled # "no" /\ UpdateStep
            => position' = position /\ target' = target /\ updateEvents' = 0]_vars

\* Flags were set when the controls were cancelled (and are still enabled: the
\* document was hidden), and a quarter second or more has passed in updates since.
C9_Witness ==
    /\ cancelled = "held"
    /\ enabled
    /\ translation.enabled
    /\ seg.valid /\ seg.timestamp < timestamp

\* C10: a pointerlockchange event after which the locked element is not the
\* controller's DOM element resets MovementState at once.
C10_PointerLockLossResets ==
    [][HandlePointerLockEvent(FALSE) => movementState' = ResetState]_vars

\* C11: when the last key event released one direction of a pair of which both
\* were held and the other stays held, every update that follows moves along the
\* held direction on that axis, whatever the tie-break flag of the pair holds.
C11_ReleasedYieldsToHeld ==
    [][UpdateStep /\ translation.enabled /\ released # NoReleased
         => /\ movementState[released] /\ ~movementState[Opposite(released)]
            /\ \A pr \in Pairs :
                 released \in {pr.plus, pr.minus}
                   => Along(pr.axis) =
                        (IF released = pr.plus THEN 1 ELSE 0 - 1)
                          * Step(movementState, timestamp' - timestamp)]_vars

\* Backward was pressed first, then forward, then backward was released: the
\* tie-break flag still names backward, and a quarter second of forward movement
\* has been made.
C11_Witness ==
    /\ released = "forward"
    /\ movementState = [OnlyForward EXCEPT !.backwardBeforeForward = TRUE]
    /\ quaternion = <<0, 0, 0, 1>>
    /\ mode = FIRST_PERSON
    /\ seg.valid /\ timestamp = 250
    /\ position = <<0, 0, 0 - 500>>

\* C12: in every reachable state the radius of the spherical state lies between
\* the minimum and the maximum distance of the zoom settings.
C12_RadiusWithinRange ==
    zoom.minDistance <= spherical.radius /\ spherical.radius <= zoom.maxDistance

\* A zoom call that shrinks the radius unless it is clamped.
ZoomsIn(direction) ==
    zoom.enabled /\ (IF zoom.inverted THEN 0 - direction ELSE direction) = 1

\* C13: every zoom call leaves the radius within [minDistance, maxDistance]; a
\* zoom-out call at maxDistance leaves the radius at maxDistance and a zoom-in
\* call at minDistance leaves it at minDistance; with minDistance 1, maxDistance
\* 10 and sensitivity 1, eight zoom-out calls from radius 5 end at radius 10.
C13_ZoomClampIdempotent ==
    [][\A direction \in {0 - 1, 0, 1} :
         zoom.enabled /\ Zoom(direction)
           => /\ zoom.minDistance <= spherical'.radius
              /\ spherical'.radius <= zoom.maxDistance
              /\ ZoomsOut(direction) /\ spherical.radius = zoom.maxDistance
                   => spherical'.radius = zoom.maxDistance
              /\ ZoomsIn(direction) /\ spherical.radius = zoom.minDistance
                   => spherical'.radius = zoom.minDistance
              /\ ( /\ zoom.minDistance = 1 * Unit /\ zoom.maxDistance = 10 * Unit
                   /\ zoom.sensitivity = 1
                   /\ run'.from = 5 * Unit /\ run'.calls = 8
                   => spherical'.radius = 10 * Unit )]_vars

\* C14: after any sequence of operations on the zoom settings the minimum
\* distance does not exceed the maximum distance.
C14_MinNotAboveMax == zoom.minDistance <= zoom.maxDistance

\* C15: the minimum zoom distance is greater than zero in every reachable state.
C15_MinDistancePositive == zoom.minDistance > 0

\* C16: the controller passes on every "update" event of the translation
\* manager; a step that changes position or target through the translation
\* manager (moveTo, update) dispatches an event, update one per axis it moves
\* on; an update with no direction held changes nothing and dispatches nothing.
C16_MutationsEmitUpdate ==
    [][/\ forwarded' = updateEvents'
       /\ position' # position \/ target' # target => updateEvents' >= 1
       /\ UpdateStep
            => /\ updateEvents' >= Cardinality({pr \in Pairs : Along(pr.axis) # 0})
               /\ ~Held(movementState)
                    => position' = position /\ target' = target /\ updateEvents' = 0
       /\ \A a \in MoveToArguments :
            updateEvents' = 1 /\ ~seg'.valid /\ MoveTo(a[1], a[2]) => forwarded' = 1]_vars

\* Third-person mode: an update has moved position and target and its event has
\* been passed on.
C16_Witness ==
    /\ mode = THIRD_PERSON
    /\ seg.valid /\ seg.calls >= 1
    /\ position # seg.position
    /\ updateEvents = 1
    /\ forwarded = 1

\* C17: a switch from first-person to third-person mode and, with nothing in
\* between, back to first-person mode leaves position and quaternion as they were
\* before the first switch.
C17_ModeRoundTrip ==
    [][pivot.phase = "switched" /\ SetMode(FIRST_PERSON)
         => position' = pivot.position /\ quaternion' = pivot.quaternion]_vars

\* Back in first-person mode after the two switches, under a quarter turn.
C17_Witness ==
    /\ pivot.phase = "returned"
    /\ mode = FIRST_PERSON
    /\ quaternion = <<0, 1, 0, 1>>
    /\ position = pivot.position
    /\ target = <<0 - 1000, 0, 0>>

AxisOf(d) ==
    IF d \in {"forward", "backward"} THEN AxisZ
    ELSE IF d \in {"left", "right"} THEN AxisX ELSE AxisY

\* C19: a key-down or key-up of a direction (the flag of the direction tells
\* afterwards which of the two it was) changes the movement state only:
\* position, target, quaternion and the timestamp baseline stay as the updates
\* before it left them; the update that follows a key-down moves the object
\* along the direction of the key for the time since the update before it.
C19_KeyVisibleToNextUpdate ==
    [][/\ \A d \in Directions :
            ~seg'.valid /\ updateEvents' = 0 /\ HandleMovementKey(d, movementState'[d])
              => /\ position' = position /\ target' = target
                 /\ quaternion' = quaternion /\ timestamp' = timestamp
                 /\ mode' = mode /\ spherical' = spherical
       /\ stage.phase = "key" /\ UpdateStep /\ translation.enabled
            /\ ~movementState[Opposite(stage.direction)]
            => Along(AxisOf(stage.direction)) =
                 (IF Named(stage.direction) THEN 1 ELSE 0 - 1)
                   * Step(movementState, timestamp' - timestamp)]_vars

\* update(250) with nothing held, key-down of forward, update(500): the object
\* has moved for a quarter second.
C19_Witness ==
    /\ stage = [phase |-> "applied", direction |-> "forward"]
    /\ movementState = OnlyForward
    /\ translation.enabled
    /\ quaternion = <<0, 0, 0, 1>>
    /\ mode = FIRST_PERSON
    /\ timestamp = 500
    /\ position = <<0, 0, 0 - 500>>

\* The flag of MovementState each action stands for.
ActionFlag ==
    [a \in {"MOVE_FORWARD", "MOVE_LEFT", "MOVE_BACKWARD", "MOVE_RIGHT", "MOVE_DOWN",
            "MOVE_UP", "BOOST"} |->
        CASE a = "MOVE_FORWARD" -> "forward"
          [] a = "MOVE_LEFT" -> "left"
          [] a = "MOVE_BACKWARD" -> "backward"
          [] a = "MOVE_RIGHT" -> "right"
          [] a = "MOVE_DOWN" -> "down"
          [] a = "MOVE_UP" -> "up"
          [] a = "BOOST" -> "boost"]

Controlled == <<position, quaternion, target, mode, spherical, timestamp>>

\* C20: every one of the nine actions has a strategy; a key event of a key bound
\* to a movement action or to BOOST sets the flag of that action to pressed and
\* leaves every other direction and boost flag and the object alone; a key event
\* of a key bound to a zoom action leaves the movement state alone; a key event
\* of a key that is not bound changes nothing.
C20_KeyDispatch ==
    [][\A keyCode \in KeyCodes, pressed \in BOOLEAN :
         HandleKeyboardEvent(keyCode, pressed)
           => IF keyCode \in DOMAIN KeyBindings
              THEN /\ KeyBindings[keyCode] \in Actions
                   /\ DOMAIN Strategies = Actions
                   /\ IF KeyBindings[keyCode] \in DOMAIN ActionFlag
                      THEN /\ movementState'[ActionFlag[KeyBindings[keyCode]]] = pressed
                           /\ \A f \in Directions \cup {"boost"} :
                                f # ActionFlag[KeyBindings[keyCode]]
                                  => movementState'[f] = movementState[f]
                           /\ UNCHANGED Controlled
                      ELSE movementState' = movementState
              ELSE UNCHANGED <<Controlled, movementState, zoom, translation, enabled>>]_vars

\* Keys of all three kinds have been pressed: left and boost are set, and a
\* zoom key has moved the camera out to radius 2 in third-person mode.
C20_Witness ==
    /\ movementState.left /\ ~movementState.right /\ movementState.boost
    /\ mode = THIRD_PERSON
    /\ spherical.radius = 2 * Unit
    /\ VSub(position, target) = VScale(WorldAxis[quaternion][AxisZ], 2000)

\* The state one call of rotationManager.zoom(direction) leaves.
OneZoomCall(direction) ==
    ManagerZoom([position |-> position, target |-> target, quaternion |-> quaternion,
                 spherical |-> spherical], mode, zoom, direction)

\* The step is one call of rotationManager.zoom(direction).
IsOneZoomCall(direction) ==
    LET s == OneZoomCall(direction)
    IN  /\ spherical' = s.spherical
        /\ position' = s.position
        /\ target' = s.target
        /\ quaternion' = s.quaternion

\* C21: a key-down of the ZOOM_IN key (33) is one zoom call of direction +1 and a
\* key-down of the ZOOM_OUT key (34) one zoom call of direction -1; a key-up of
\* either is no zoom call: radius, position, target and quaternion stay; a wheel
\* event is one zoom call whose direction is the sign of deltaY, one of -1, 0, +1.
C21_ZoomDiscrete ==
    [][changeEvents' = 0 /\ zoom' = zoom /\ mode' = mode
         => /\ HandleKeyboardEvent(33, TRUE) => IsOneZoomCall(1)
            /\ HandleKeyboardEvent(34, TRUE) => IsOneZoomCall(0 - 1)
            /\ \A keyCode \in {33, 34} :
                 HandleKeyboardEvent(keyCode, FALSE)
                   => UNCHANGED <<spherical, position, target, quaternion>>
            /\ \A deltaY \in WheelDeltas :
                 HandleWheelEvent(deltaY)
                   => Sign(deltaY) \in {0 - 1, 0, 1} /\ IsOneZoomCall(Sign(deltaY))]_vars

\* Third-person mode: two key-downs of the ZOOM_OUT key in a row (the key is held
\* and repeats) have moved the camera from radius 1 to radius 3, one unit each.
C21_Witness ==
    /\ mode = THIRD_PERSON
    /\ zoom = ZoomDefault
    /\ run = [from |-> 1 * Unit, calls |-> 2]
    /\ spherical.radius = 3 * Unit
    /\ quaternion = <<0, 0, 0, 1>>
    /\ position = VAdd(target, <<0, 0, 3000>>)

C24_SharedObjects ==
    \A field \in Fields : \A holder \in Holders :
        objects[holder][field] = objects["controls"][field]

\* After copy(controls) and setPosition(vector) with a vector of the application:
\* all three refer to that vector, at (2, 0, 0), and to the quaternion and the
\* target of the other controls.
C24_Witness ==
    /\ objects["translationManager"] =
         [position |-> "given", quaternion |-> "theirs", target |-> "theirs"]
    /\ objects["rotationManager"] = objects["translationManager"]
    /\ objects["controls"] = objects["translationManager"]
    /\ position = <<2000, 0, 0>>

\* C25: controls that are not enabled, after dispose() or setEnabled(false), have
\* no listener left on the document, the body or any DOM element.
C25_NoListenerLeft == ~enabled => listeners = {}

\* A step that sets the instance clone() returned.
CloneSet ==
    \/ \E value \in ZoomSensitivities : CloneSetSensitivity(value)
    \/ \E value \in BOOLEAN : CloneSetEnabled(value)

\* C26: clone() returns an instance whose enabled, inverted, minDistance,
\* maxDistance and sensitivity are those of the original, and leaves the original;
\* setting the clone leaves the original; clone() and copy() dispatch no "change"
\* event, and copy() takes the five fields of its argument.
C26_Clone ==
    [][/\ CloneZoom
            => /\ \A c \in clone' :
                    /\ \A f \in {"enabled", "inverted", "minDistance", "maxDistance",
                                  "sensitivity"} : c[f] = zoom[f]
                    /\ DOMAIN c = DOMAIN zoom
               /\ clone' # NoClone
               /\ zoom' = zoom
               /\ changeEvents' = 0
       /\ CloneSet => zoom' = zoom /\ changeEvents' = 0
       /\ \A settings \in ZoomOthers :
            CopyZoom(settings) => zoom' = settings /\ changeEvents' = 0]_vars

\* The settings with sensitivity 3 and the range 1 to 10 were cloned, then the
\* clone was disabled and set to sensitivity 1: the original is as it was.
C26_Witness ==
    /\ zoom = [enabled |-> TRUE, inverted |-> FALSE, minDistance |-> 1 * Unit,
               maxDistance |-> 10 * Unit, sensitivity |-> 3]
    /\ clone = {[zoom EXCEPT !.enabled = FALSE, !.sensitivity = 1]}
    /\ changeEvents = 0

====
